---- MODULE Spec2Model ----
(***************************************************************************)
(* Now Playing Lyrics (vscode-now-playing-lyrics), extension.ts.           *)
(*                                                                         *)
(* Two state machines over one set of variables:                           *)
(*   Spec        the playback tracker: the polling interval, the debounce  *)
(*               timer, the asynchronous invocations of the update         *)
(*               callback, the now-playing query and the lyric fetch.      *)
(*   SpecLocate  findCurrentLyricLine applied to bounded line sequences.   *)
(*                                                                         *)
(* Not modelled (presentation only): statusBarItem.tooltip, the webview    *)
(* panel's html (a function of currentTrack and fullLyrics), console       *)
(* logging.                                                                *)
(***************************************************************************)
EXTENDS Integers, Sequences, FiniteSets, Bags, TLC

VARIABLES
    currentTrack,     \* module-level `currentTrack`: <<>> (null) or <<[artist, title]>>
    fullLyrics,       \* module-level `fullLyrics`: the transcript, a sequence of text lines ('' is <<>>)
    statusText,       \* statusBarItem.text
    statusCommand,    \* statusBarItem.command
    currentLyrics,    \* activate(): `currentLyrics`
    lastTrackId,      \* activate(): `lastTrackId`
    lyricsCache,      \* activate(): `lyricsCache`, trackId -> <<>> (absent) or <<entry>>
    updateInterval,   \* TRUE while the setInterval handle is live
    timeout,          \* debounce(): TRUE while a setTimeout handle is pending
    invocations,      \* bag of suspended invocations of the debounced async callback
    now,              \* Date.now()
    ev,               \* history: the last step taken and what it saw
    locLines,         \* SpecLocate: the `lyrics` argument
    locPos,           \* SpecLocate: the `currentTimeMs` argument of the last call
    locIdx,           \* SpecLocate: index the last call's find() stopped at (0: none)
    locResult,        \* SpecLocate: value returned by the last call: <<>> (null) or <<line>>
    res,              \* SpecResolve: a call of fetchSynchronizedLyrics: [args: its arguments,
                      \*   calls: history of the sources awaited and how each settled,
                      \*   lastError: `lastError`, <<>> (null) or <<message>>,
                      \*   outcome: <<>> while pending, else <<how the call settled>>]
    srt,              \* SpecSort: a call of sortSearchResults: [results: the array (sorted in
                      \*   place), input: history, the array as passed, target: [artist, title],
                      \*   called: TRUE once it has returned]
    prs,              \* SpecParse: an LRC parse: [lyric: `lrc.lyric`, a sequence of characters,
                      \*   source: history, what each line was composed of,
                      \*   outcome: <<>> before the parse, else <<Returns(lines) or Throws(..)>>]
    ntf,              \* SpecNotify: [now: Date.now(), lastErrorTime: showErrorWithCooldown.lastErrorTime,
                      \*   shown: history, the times showErrorMessage was called at,
                      \*   reports: history, the number of calls of showErrorWithCooldown]
    tid,              \* SpecTrackId: [tracks: two snapshots <<a, b>> of the player,
                      \*   ids: <<>> before, else <<the trackId computed for a and for b>>]
    lib               \* SpecLrcLib: a call of fetchFromLrcLib: [args: its arguments,
                      \*   search: how the search request settles, payloads: how the request
                      \*   for each result id settles, sorted: <<>> or <<sortedResults>>,
                      \*   tried: history, the ids requested so far,
                      \*   outcome: <<>> while pending, else <<how the call settled>>]

trackerVars == <<currentTrack, fullLyrics, statusText, statusCommand, currentLyrics,
                 lastTrackId, lyricsCache, updateInterval, timeout, invocations, now, ev>>
locateVars == <<locLines, locPos, locIdx, locResult>>
resolveVars == <<res>>
sortVars == <<srt>>
parseVars == <<prs>>
notifyVars == <<ntf>>
idVars == <<tid>>
libVars == <<lib>>
vars == <<trackerVars, locateVars, resolveVars, sortVars, parseVars, notifyVars, idVars, libVars>>

----------------------------------------------------------------------------
(* Bounds of the model *)

MaxInvocations == 2      \* at most this many invocations suspended at once
MaxClockSteps == 2       \* Date.now() advances at most this many half-days
MaxLen == 3              \* SpecLocate: line sequences up to this length
MaxTime == 3             \* SpecLocate: line times and positions 0..MaxTime
MaxResults == 3          \* SpecSort: search results per response
MaxLines == 2            \* SpecParse: lines per LRC text
MaxReports == 5          \* SpecNotify: calls of showErrorWithCooldown
MaxElapsed == 6          \* SpecNotify: Date.now() advances at most this many half cooldowns

----------------------------------------------------------------------------
(* Data *)

Null == <<>>
Some(x) == <<x>>

LyricLine(text, time) == [text |-> text, time |-> time]

\* Variant: the artist is left out of the id
TrackIdOf_TitleOnly(track) == track.title

\* `${track.artist}-${track.title}`
TrackIdOf(track) == track.artist \o "-" \o track.title

Artists == {"A"}
Titles == {"x", "y"}

\* player positions, in seconds
Positions == {0, 1}

\* What getCurrentTrack() can resolve to: a CurrentTrack
Snapshots ==
    [artist : Artists, title : Titles, position : Positions, isPlaying : BOOLEAN]

\* Messages of the errors getCurrentTrack() can throw
ErrorMessages == {"not allowed to send Apple events", "execution error"}

\* error.message.includes('not allowed') || includes('permission') ||
\* includes('authorized') || includes('timed out')
IsPermissionError(message) ==
    message \in {"not allowed to send Apple events", "permission", "not authorized",
                 "timed out"}

\* What fetchSynchronizedLyrics(artist, title) resolves to when it succeeds:
\* the upstream's lines for that song (at least one line) and its transcript.
UpstreamLyrics(artist, title) ==
    IF title = "x"
    THEN [syncedLyrics |-> <<LyricLine("x1", 1000)>>,
          plainLyrics |-> <<"composer: z", "x1">>]
    ELSE [syncedLyrics |-> <<LyricLine("y0", 0), LyricLine("y1", 1000)>>,
          plainLyrics |-> <<"y0", "y1">>]

FetchErrors == {"No lyrics found in any source"}

\* 24 * 60 * 60 * 1000
CacheTtlMs == 24 * 60 * 60 * 1000

\* granularity of the modelled clock: half a day
ClockStep == 12 * 60 * 60 * 1000

----------------------------------------------------------------------------
(* Pure functions *)

\* Variants of the find() predicate, each one slip away from the source's
\* line.time < t: a line does not start at its own timestamp
LineIsCurrent_Strict(lyrics, i, t) ==
    /\ lyrics[i].time < t
    /\ (i + 1 > Len(lyrics) \/ lyrics[i + 1].time > t)

\* the lower bound dropped: only the next line is compared
LineIsCurrent_NoLowerBound(lyrics, i, t) ==
    i + 1 > Len(lyrics) \/ lyrics[i + 1].time > t

\* !nextLine dropped: the last line has no next line to compare with
LineIsCurrent_NoLast(lyrics, i, t) ==
    /\ lyrics[i].time <= t
    /\ i + 1 <= Len(lyrics)
    /\ lyrics[i + 1].time > t

\* The predicate of findCurrentLyricLine's find(): line i is current at t
LineIsCurrent(lyrics, i, t) ==
    /\ lyrics[i].time <= t
    /\ (i + 1 > Len(lyrics) \/ lyrics[i + 1].time > t)

\* Array.prototype.find: the first index whose element satisfies the predicate, 0 if none
FindIndex(lyrics, t) ==
    IF \E i \in 1..Len(lyrics) : LineIsCurrent(lyrics, i, t)
    THEN CHOOSE i \in 1..Len(lyrics) :
            /\ LineIsCurrent(lyrics, i, t)
            /\ \A j \in 1..(i - 1) : ~LineIsCurrent(lyrics, j, t)
    ELSE 0

\* findCurrentLyricLine(lyrics, currentTimeMs): find(...) || null
findCurrentLyricLine(lyrics, currentTimeMs) ==
    LET i == FindIndex(lyrics, currentTimeMs)
    IN IF i = 0 THEN Null ELSE Some(lyrics[i])

\* cleanLyrics: drop the transcript lines that carry a credit keyword
IsCreditLine(line) == line \in {"composer: z", "producer: z", "lyricist: z"}

cleanLyrics(text) == SelectSeq(text, LAMBDA line : ~IsCreditLine(line))

\* updateStatusBarText: the text between the fixed prefix and suffix
StatusBar(text) == " (note)  " \o text \o "   "

----------------------------------------------------------------------------
(* Initial state: after activate() with the welcome message already shown *)

Event(op, trackId, stale) == [op |-> op, trackId |-> trackId, stale |-> stale]

TrackerInit ==
    /\ currentTrack = Null
    /\ fullLyrics = <<>>
    /\ statusText = StatusBar("Waiting for music...")
    /\ statusCommand = "showPanel"
    /\ currentLyrics = <<>>
    /\ lastTrackId = ""
    /\ lyricsCache = [id \in {TrackIdOf(s) : s \in Snapshots} |-> Null]
    /\ updateInterval = TRUE
    /\ timeout = TRUE
    /\ invocations = EmptyBag
    /\ now = 0
    /\ ev = Event("activate", "", FALSE)

LocateIdle ==
    /\ locLines = <<>>
    /\ locPos = 0
    /\ locIdx = 0
    /\ locResult = Null

\* no call of fetchSynchronizedLyrics under study
ResolveIdle == res = Null

\* no call of sortSearchResults under study
SortIdle == srt = Null

\* no LRC parse under study
ParseIdle == prs = Null

\* no notifications under study
NotifyIdle == ntf = Null
TrackIdIdle == tid = Null
LibIdle == lib = Null

Init ==
    /\ TrackerInit /\ LocateIdle /\ ResolveIdle /\ SortIdle /\ ParseIdle /\ NotifyIdle
    /\ TrackIdIdle
    /\ LibIdle

----------------------------------------------------------------------------
(* The update callback, as transformations of the state it shares.         *)
(* A shared state s is a record of the variables the callback reads and    *)
(* writes; each operator below is one stretch of straight-line code.       *)

Shared ==
    [currentTrack |-> currentTrack, fullLyrics |-> fullLyrics, statusText |-> statusText,
     statusCommand |-> statusCommand, currentLyrics |-> currentLyrics,
     lastTrackId |-> lastTrackId, lyricsCache |-> lyricsCache]

Commit(s) ==
    /\ currentTrack' = s.currentTrack
    /\ fullLyrics' = s.fullLyrics
    /\ statusText' = s.statusText
    /\ statusCommand' = s.statusCommand
    /\ currentLyrics' = s.currentLyrics
    /\ lastTrackId' = s.lastTrackId
    /\ lyricsCache' = s.lyricsCache

updateStatusBarText(s, text) == [s EXCEPT !.statusText = StatusBar(text)]

clearLyricsState(s) ==
    updateStatusBarText([s EXCEPT !.currentLyrics = <<>>, !.fullLyrics = <<>>],
                        "Waiting for music...")

\* Variant: the state is cleared whether or not a track was active
ClearIfTrackActive_Always(s) == [clearLyricsState(s) EXCEPT !.currentTrack = Null]

\* if (currentTrack !== null) { clearLyricsState(); currentTrack = null; }
ClearIfTrackActive(s) ==
    IF s.currentTrack # Null
    THEN [clearLyricsState(s) EXCEPT !.currentTrack = Null]
    ELSE s

\* if (!track) { ...; return; }
OnNoTrack(s) == ClearIfTrackActive(s)

\* the outer catch block
OnQueryError(s, message) ==
    LET s1 == IF IsPermissionError(message)
              THEN [updateStatusBarText(s, "(warning) Permission needed   ")
                        EXCEPT !.statusCommand = "showPermissionHelp"]
              ELSE s
    IN ClearIfTrackActive(s1)

\* currentTrack = track. Of the stored object only null-ness, artist and title
\* are ever read again (updatePanel), so only those are kept.
SetCurrentTrack(s, track) ==
    [s EXCEPT !.currentTrack = Some([artist |-> track.artist, title |-> track.title])]

\* Variant: a paused player also unloads the lyrics
OnPaused_Unloads(s) ==
    [updateStatusBarText(s, "Paused   ")
        EXCEPT !.statusCommand = "showPanel", !.currentLyrics = <<>>, !.fullLyrics = <<>>]

\* if (!track.isPlaying) { ...; return; }
OnPaused(s) ==
    [updateStatusBarText(s, "Paused   ") EXCEPT !.statusCommand = "showPanel"]

\* Variant: every tick counts as a track change
TrackChanged_Always(s, trackId) == TRUE

\* if (trackId !== lastTrackId)
TrackChanged(s, trackId) == trackId # s.lastTrackId

\* Variant: the lines of the previous track stay loaded
OnTrackChange_KeepsLines(s, trackId) ==
    updateStatusBarText([s EXCEPT !.lastTrackId = trackId], "Fetching lyrics...   ")

\* lastTrackId = trackId; currentLyrics = []; updateStatusBarText('Fetching lyrics...   ')
OnTrackChange(s, trackId) ==
    updateStatusBarText([s EXCEPT !.lastTrackId = trackId, !.currentLyrics = <<>>],
                        "Fetching lyrics...   ")

\* Variant: an entry exactly 24 hours old still counts as fresh
CacheFresh_Inclusive(s, trackId, t) ==
    /\ s.lyricsCache[trackId] # Null
    /\ t - s.lyricsCache[trackId][1].timestamp <= CacheTtlMs

\* cached && Date.now() - cached.timestamp < 24 * 60 * 60 * 1000
CacheFresh(s, trackId, t) ==
    /\ s.lyricsCache[trackId] # Null
    /\ t - s.lyricsCache[trackId][1].timestamp < CacheTtlMs

\* Variant: the entry is found but its lines are not adopted
AdoptCached_Nothing(s, trackId) == [s EXCEPT !.statusCommand = "showPanel"]

\* the cache-hit branch, up to its return
AdoptCached(s, trackId) ==
    LET cached == s.lyricsCache[trackId][1]
    IN [s EXCEPT !.currentLyrics = cached.syncedLyrics,
                 !.fullLyrics = cached.plainLyrics,
                 !.statusCommand = "showPanel"]

\* Variant: the entry is stored without the time of writing
CachePut_Undated(s, trackId, result, t) ==
    [s EXCEPT !.lyricsCache[trackId] =
        Some([syncedLyrics |-> result.syncedLyrics, plainLyrics |-> result.plainLyrics,
              timestamp |-> 0])]

\* Variant: the cache holds one entry, the put drops every other key
CachePut_Evicting(s, trackId, result, t) ==
    [s EXCEPT !.lyricsCache =
        [id \in DOMAIN s.lyricsCache |->
            IF id = trackId
            THEN Some([syncedLyrics |-> result.syncedLyrics,
                       plainLyrics |-> result.plainLyrics, timestamp |-> t])
            ELSE Null]]

\* lyricsCache.set(trackId, {syncedLyrics, plainLyrics, timestamp: Date.now()})
CachePut(s, trackId, result, t) ==
    [s EXCEPT !.lyricsCache[trackId] =
        Some([syncedLyrics |-> result.syncedLyrics, plainLyrics |-> result.plainLyrics,
              timestamp |-> t])]

\* Variant: the result is adopted without comparing the track ids
StillCurrent_Always(s, trackId) == TRUE

\* if (lastTrackId === trackId)
StillCurrent(s, trackId) == s.lastTrackId = trackId

\* the block guarded by lastTrackId === trackId
AdoptFetched(s, result) ==
    [s EXCEPT !.currentLyrics = result.syncedLyrics,
              !.fullLyrics = cleanLyrics(result.plainLyrics),
              !.statusCommand = "showPanel"]

\* after `await fetchSynchronizedLyrics` resolves, to the end of the inner try
OnFetchSuccess(s, trackId, result, t) ==
    LET s1 == CachePut(s, trackId, result, t)
    IN IF StillCurrent(s1, trackId) THEN AdoptFetched(s1, result) ELSE s1

\* Variant: the rejection is left to the outer catch block
OnFetchFailure_Escapes(s) == ClearIfTrackActive(s)

\* Variant: the rejection is swallowed without a trace
OnFetchFailure_Silent(s) == s

\* the inner catch block
OnFetchFailure(s) ==
    [updateStatusBarText(s, "No lyrics found   ")
        EXCEPT !.currentLyrics = <<>>, !.fullLyrics = <<>>]

\* "Find and display current lyric line"
DisplayCurrentLine(s, track) ==
    LET currentLine == findCurrentLyricLine(s.currentLyrics, track.position * 1000)
    IN IF currentLine # Null
       THEN [updateStatusBarText(s, currentLine[1].text) EXCEPT !.statusCommand = "showPanel"]
       ELSE IF Len(s.currentLyrics) > 0
            THEN [updateStatusBarText(s, "...   ") EXCEPT !.statusCommand = "showPanel"]
            ELSE s

----------------------------------------------------------------------------
(* The tracker's steps *)

Invocation(pc, track) == [pc |-> pc, track |-> track]

AwaitingTrack == Invocation("awaitTrack", Null)
AwaitingFetch(track) == Invocation("awaitFetch", Some(track))

Suspend(inv) == invocations' = invocations (+) SetToBag({inv})
Resume(inv) == invocations (-) SetToBag({inv})

\* setInterval(debouncedUpdate, 1000) fires: the debounced wrapper clears a
\* pending timeout and sets a new one
IntervalTick ==
    /\ updateInterval
    /\ timeout' = TRUE
    /\ ev' = Event("tick", "", FALSE)
    /\ UNCHANGED <<currentTrack, fullLyrics, statusText, statusCommand, currentLyrics,
                   lastTrackId, lyricsCache, updateInterval, invocations, now>>

\* the debounce timeout fires: timeout = null; func(): the callback runs to
\* `await getCurrentTrack()`
TimeoutFires ==
    /\ timeout
    /\ BagCardinality(invocations) < MaxInvocations
    /\ timeout' = FALSE
    /\ Suspend(AwaitingTrack)
    /\ ev' = Event("start", "", FALSE)
    /\ UNCHANGED <<currentTrack, fullLyrics, statusText, statusCommand, currentLyrics,
                   lastTrackId, lyricsCache, updateInterval, now>>

\* getCurrentTrack() resolves to null
QueryReturnsNull ==
    /\ BagIn(AwaitingTrack, invocations)
    /\ Commit(OnNoTrack(Shared))
    /\ invocations' = Resume(AwaitingTrack)
    /\ ev' = Event("noTrack", "", FALSE)
    /\ UNCHANGED <<updateInterval, timeout, now>>

\* Variant: the rejection also ends the polling
QueryThrows_StopsPolling(message) ==
    /\ BagIn(AwaitingTrack, invocations)
    /\ Commit(OnQueryError(Shared, message))
    /\ invocations' = Resume(AwaitingTrack)
    /\ ev' = Event(IF IsPermissionError(message) THEN "permissionError" ELSE "queryError",
                   "", FALSE)
    /\ updateInterval' = FALSE
    /\ UNCHANGED <<timeout, now>>

\* getCurrentTrack() rejects: the outer catch block runs and the callback ends
QueryThrows(message) ==
    /\ BagIn(AwaitingTrack, invocations)
    /\ Commit(OnQueryError(Shared, message))
    /\ invocations' = Resume(AwaitingTrack)
    /\ ev' = Event(IF IsPermissionError(message) THEN "permissionError" ELSE "queryError",
                   "", FALSE)
    /\ UNCHANGED <<updateInterval, timeout, now>>

\* getCurrentTrack() resolves to a track: the callback runs to its return or
\* to `await fetchSynchronizedLyrics(...)`
QueryReturnsTrack(track) ==
    LET trackId == TrackIdOf(track)
        s1 == SetCurrentTrack(Shared, track)
        s2 == OnTrackChange(s1, trackId)
    IN /\ BagIn(AwaitingTrack, invocations)
       /\ IF ~track.isPlaying
          THEN /\ Commit(OnPaused(s1))
               /\ invocations' = Resume(AwaitingTrack)
               /\ ev' = Event("paused", trackId, FALSE)
          ELSE IF ~TrackChanged(s1, trackId)
          THEN /\ Commit(DisplayCurrentLine(s1, track))
               /\ invocations' = Resume(AwaitingTrack)
               /\ ev' = Event("sameTrack", trackId, FALSE)
          ELSE IF CacheFresh(s2, trackId, now)
          THEN /\ Commit(AdoptCached(s2, trackId))
               /\ invocations' = Resume(AwaitingTrack)
               /\ ev' = Event("cacheHit", trackId, FALSE)
          ELSE /\ Commit(s2)
               /\ invocations' = Resume(AwaitingTrack) (+) SetToBag({AwaitingFetch(track)})
               /\ ev' = Event("fetch", trackId, FALSE)
       /\ UNCHANGED <<updateInterval, timeout, now>>

\* fetchSynchronizedLyrics resolves: the callback runs to its end
FetchSucceeds(track) ==
    LET trackId == TrackIdOf(track)
        result == UpstreamLyrics(track.artist, track.title)
    IN /\ BagIn(AwaitingFetch(track), invocations)
       /\ Commit(DisplayCurrentLine(OnFetchSuccess(Shared, trackId, result, now), track))
       /\ invocations' = Resume(AwaitingFetch(track))
       /\ ev' = Event("fetchOk", trackId, lastTrackId # trackId)
       /\ UNCHANGED <<updateInterval, timeout, now>>

\* fetchSynchronizedLyrics rejects: the callback runs to its end
FetchFails(track) ==
    LET trackId == TrackIdOf(track)
    IN /\ BagIn(AwaitingFetch(track), invocations)
       /\ Commit(DisplayCurrentLine(OnFetchFailure(Shared), track))
       /\ invocations' = Resume(AwaitingFetch(track))
       /\ ev' = Event("fetchFailed", trackId, lastTrackId # trackId)
       /\ UNCHANGED <<updateInterval, timeout, now>>

\* time passes
AdvanceClock ==
    /\ now < MaxClockSteps * ClockStep
    /\ now' = now + ClockStep
    /\ ev' = Event("clock", "", FALSE)
    /\ UNCHANGED <<currentTrack, fullLyrics, statusText, statusCommand, currentLyrics,
                   lastTrackId, lyricsCache, updateInterval, timeout, invocations>>

\* the subscription's dispose: if (updateInterval) clearInterval(updateInterval)
Dispose ==
    /\ updateInterval
    /\ updateInterval' = FALSE
    /\ ev' = Event("dispose", "", FALSE)
    /\ UNCHANGED <<currentTrack, fullLyrics, statusText, statusCommand, currentLyrics,
                   lastTrackId, lyricsCache, timeout, invocations, now>>

Next ==
    \/ IntervalTick /\ UNCHANGED <<locateVars, resolveVars, sortVars, parseVars, notifyVars, idVars, libVars>>
    \/ TimeoutFires /\ UNCHANGED <<locateVars, resolveVars, sortVars, parseVars, notifyVars, idVars, libVars>>
    \/ QueryReturnsNull /\ UNCHANGED <<locateVars, resolveVars, sortVars, parseVars, notifyVars, idVars, libVars>>
    \/ (\E message \in ErrorMessages : QueryThrows(message)) /\ UNCHANGED <<locateVars, resolveVars, sortVars, parseVars, notifyVars, idVars, libVars>>
    \/ (\E track \in Snapshots : QueryReturnsTrack(track)) /\ UNCHANGED <<locateVars, resolveVars, sortVars, parseVars, notifyVars, idVars, libVars>>
    \/ (\E track \in Snapshots : FetchSucceeds(track)) /\ UNCHANGED <<locateVars, resolveVars, sortVars, parseVars, notifyVars, idVars, libVars>>
    \/ (\E track \in Snapshots : FetchFails(track)) /\ UNCHANGED <<locateVars, resolveVars, sortVars, parseVars, notifyVars, idVars, libVars>>
    \/ AdvanceClock /\ UNCHANGED <<locateVars, resolveVars, sortVars, parseVars, notifyVars, idVars, libVars>>
    \/ Dispose /\ UNCHANGED <<locateVars, resolveVars, sortVars, parseVars, notifyVars, idVars, libVars>>

Spec == Init /\ [][Next]_vars

\* a step of the tracker leaves the other specifications' variables alone
TrackerAlone == UNCHANGED <<locateVars, resolveVars, sortVars, parseVars, notifyVars, idVars, libVars>>

\* The polling on its own: the tracker's steps with the player, when it has
\* a track, playing it at position 0, and with the clock standing still,
\* under the scheduling the runtime provides: a live interval keeps firing;
\* a pending debounce timeout fires (its 500 ms run out before the interval's
\* next 1000 ms re-arm it); an awaited player query or lyric fetch settles.
PollSnapshots == {track \in Snapshots : track.position = 0 /\ track.isPlaying}

PollQuerySettles ==
    \/ QueryReturnsNull
    \/ \E message \in ErrorMessages : QueryThrows(message)
    \/ \E track \in PollSnapshots : QueryReturnsTrack(track)

PollFetchSettles ==
    \/ \E track \in PollSnapshots : FetchSucceeds(track)
    \/ \E track \in PollSnapshots : FetchFails(track)

PollNext ==
    \/ IntervalTick /\ TrackerAlone
    \/ TimeoutFires /\ TrackerAlone
    \/ PollQuerySettles /\ TrackerAlone
    \/ PollFetchSettles /\ TrackerAlone
    \/ Dispose /\ TrackerAlone

FairSpec ==
    /\ Init
    /\ [][PollNext]_vars
    /\ WF_vars(IntervalTick /\ TrackerAlone)
    /\ WF_vars(TimeoutFires /\ TrackerAlone)
    /\ WF_vars(PollQuerySettles /\ TrackerAlone)
    /\ WF_vars(PollFetchSettles /\ TrackerAlone)

\* The same tracker with a player that may never answer: the timers fire and
\* awaited fetches settle, but nothing obliges `await execAsync(...)` to
\* settle, and getCurrentTrack() arms no timer of its own around it.
SilentPlayerSpec ==
    /\ Init
    /\ [][PollNext]_vars
    /\ WF_vars(IntervalTick /\ TrackerAlone)
    /\ WF_vars(TimeoutFires /\ TrackerAlone)
    /\ WF_vars(PollFetchSettles /\ TrackerAlone)

----------------------------------------------------------------------------
(* findCurrentLyricLine on its own: any line sequence within the bounds    *)
(* (sorted or not, the function does not check), any number of calls at    *)
(* any positions, forward or rewound.                                      *)

LocTexts == {"a", "b"}
LocLineSet == {LyricLine(text, time) : text \in LocTexts, time \in 0..MaxTime}
LocSeqs == UNION {[1..n -> LocLineSet] : n \in 0..MaxLen}

\* before the first call: a position no call uses
NotCalled == 0 - 1

LocateInit ==
    /\ TrackerInit
    /\ NotifyIdle
    /\ TrackIdIdle
    /\ LibIdle
    /\ ParseIdle
    /\ ResolveIdle
    /\ SortIdle
    /\ locLines \in LocSeqs
    /\ locPos = NotCalled
    /\ locIdx = 0
    /\ locResult = Null

LocateCall(positionMs) ==
    /\ locPos' = positionMs
    /\ locIdx' = FindIndex(locLines, positionMs)
    /\ locResult' = findCurrentLyricLine(locLines, positionMs)
    /\ UNCHANGED locLines

LocateNext ==
    \/ (\E positionMs \in 0..MaxTime : LocateCall(positionMs))
          /\ UNCHANGED <<trackerVars, resolveVars, sortVars, parseVars, notifyVars, idVars, libVars>>

SpecLocate == LocateInit /\ [][LocateNext]_vars

----------------------------------------------------------------------------
(* fetchSynchronizedLyrics on its own: one call, each source settling in    *)
(* any of the ways an adapter can.                                          *)

\* Variant: the sources listed in another order
Sources_NeteaseFirst == <<"fetchFromNetease", "fetchFromLrcLib", "fetchFromQQMusic">>

\* const sources = [fetchFromLrcLib, fetchFromNetease, fetchFromQQMusic]
Sources == <<"fetchFromLrcLib", "fetchFromNetease", "fetchFromQQMusic">>

Throws(error) == [kind |-> "throws", error |-> error, result |-> <<>>]
Returns(result) == [kind |-> "returns", error |-> "", result |-> <<result>>]

\* the lines a source delivers for a song, n of them
AdapterLines(source, title, n) ==
    [i \in 1..n |-> LyricLine(source \o " " \o title \o (IF i = 1 THEN " 1" ELSE " 2"),
                              1000 * i)]

AdapterResult(source, title, n) ==
    [syncedLyrics |-> AdapterLines(source, title, n),
     plainLyrics |-> [i \in 1..n |-> AdapterLines(source, title, n)[i].text]]

\* How a call of one source can settle: it rejects (nothing found upstream,
\* or the request failed), or resolves to a result with zero or more lines.
AdapterOutcomes(source, artist, title) ==
    {Throws(source \o ": not found"), Throws(source \o ": request failed")}
        \cup {Returns(AdapterResult(source, title, n)) : n \in 0..2}

\* Variant: any resolved result is returned, lines or not
Usable_Any(result) == TRUE

\* if (result.syncedLyrics.length > 0)
Usable(result) == Len(result.syncedLyrics) > 0

\* Variant: a source that resolves wipes the error recorded before it
RecordError_Wiped(lastError, outcome) ==
    IF outcome.kind = "throws" THEN Some(outcome.error) ELSE Null

\* catch (error) { lastError = error instanceof Error ? error : new Error(String(error)); }
RecordError(lastError, outcome) ==
    IF outcome.kind = "throws" THEN Some(outcome.error) ELSE lastError

\* throw lastError || new Error('No lyrics found in any source')
Exhausted(lastError) ==
    Throws(IF lastError # Null THEN lastError[1] ELSE "No lyrics found in any source")

ResolveInit ==
    /\ TrackerInit
    /\ NotifyIdle
    /\ TrackIdIdle
    /\ LibIdle
    /\ ParseIdle
    /\ LocateIdle
    /\ SortIdle
    /\ res \in {[args |-> args, calls |-> <<>>, lastError |-> Null, outcome |-> Null] :
                  args \in [artist : Artists, title : Titles]}

\* the awaited source settles: the loop runs on to the next await, to the
\* return or to the final throw
SourceSettles(outcome) ==
    LET source == Sources[Len(res.calls) + 1]
        lastError == RecordError(res.lastError, outcome)
    IN /\ res.outcome = Null
       /\ Len(res.calls) < Len(Sources)
       /\ outcome \in AdapterOutcomes(source, res.args.artist, res.args.title)
       /\ res' = [res EXCEPT
                    !.calls = Append(@, [source |-> source, outcome |-> outcome]),
                    !.lastError = lastError,
                    !.outcome =
                        IF outcome.kind = "returns" /\ Usable(outcome.result[1])
                        THEN Some(Returns(outcome.result[1]))
                        ELSE IF Len(res.calls) + 1 = Len(Sources)
                             THEN Some(Exhausted(lastError))
                             ELSE Null]

AllOutcomes ==
    UNION {AdapterOutcomes(Sources[i], a, t) :
              i \in 1..Len(Sources), a \in Artists, t \in Titles}

ResolveNext ==
    \/ (\E outcome \in AllOutcomes : SourceSettles(outcome))
          /\ UNCHANGED <<trackerVars, locateVars, sortVars, parseVars, notifyVars, idVars, libVars>>

SpecResolve == ResolveInit /\ [][ResolveNext]_vars

----------------------------------------------------------------------------
(* sortSearchResults on its own: any response within the bounds, one call. *)

\* String.prototype.toLowerCase on the strings of the model
toLowerCase(str) ==
    CASE str = "A" -> "a"
      [] str = "X" -> "x"
      [] OTHER -> str

\* artistName and trackName values of the search results
ResultArtists == {"A", "a", "B"}
ResultTitles == {"X", "y"}

\* the fields of a LrcLibSearchResult the comparator reads
ResultFields ==
    [syncedFlag : BOOLEAN, artistName : ResultArtists, trackName : ResultTitles]

\* a LrcLibSearchResult: its id is its place in the response
SearchResult(i, fields) ==
    [id |-> i, syncedFlag |-> fields.syncedFlag, artistName |-> fields.artistName,
     trackName |-> fields.trackName]

\* a search response: the results in the order the service lists them
Response(fields) == [i \in DOMAIN fields |-> SearchResult(i, fields[i])]

\* Variant: the title match is compared before the artist match
CompareResults_TitleFirst(a, b, targetArtist, targetTitle) ==
    LET aArtistMatch == toLowerCase(a.artistName) = toLowerCase(targetArtist)
        bArtistMatch == toLowerCase(b.artistName) = toLowerCase(targetArtist)
        aTitleMatch == toLowerCase(a.trackName) = toLowerCase(targetTitle)
        bTitleMatch == toLowerCase(b.trackName) = toLowerCase(targetTitle)
    IN IF a.syncedFlag /\ ~b.syncedFlag THEN 0 - 1
       ELSE IF ~a.syncedFlag /\ b.syncedFlag THEN 1
       ELSE IF aTitleMatch /\ ~bTitleMatch THEN 0 - 1
       ELSE IF ~aTitleMatch /\ bTitleMatch THEN 1
       ELSE IF aArtistMatch /\ ~bArtistMatch THEN 0 - 1
       ELSE IF ~aArtistMatch /\ bArtistMatch THEN 1
       ELSE 0

\* the comparator passed to results.sort
CompareResults(a, b, targetArtist, targetTitle) ==
    LET aArtistMatch == toLowerCase(a.artistName) = toLowerCase(targetArtist)
        bArtistMatch == toLowerCase(b.artistName) = toLowerCase(targetArtist)
        aTitleMatch == toLowerCase(a.trackName) = toLowerCase(targetTitle)
        bTitleMatch == toLowerCase(b.trackName) = toLowerCase(targetTitle)
    IN IF a.syncedFlag /\ ~b.syncedFlag THEN 0 - 1
       ELSE IF ~a.syncedFlag /\ b.syncedFlag THEN 1
       ELSE IF aArtistMatch /\ ~bArtistMatch THEN 0 - 1
       ELSE IF ~aArtistMatch /\ bArtistMatch THEN 1
       ELSE IF aTitleMatch /\ ~bTitleMatch THEN 0 - 1
       ELSE IF ~aTitleMatch /\ bTitleMatch THEN 1
       ELSE 0

\* Array.prototype.sort is stable: an element is placed before the first
\* element it compares less than, and after every element it does not.
InsertResult(sorted, c, targetArtist, targetTitle) ==
    LET before == {k \in 1..Len(sorted) :
                      \A j \in 1..k : CompareResults(c, sorted[j], targetArtist, targetTitle) >= 0}
        n == Cardinality(before)
    IN SubSeq(sorted, 1, n) \o <<c>> \o SubSeq(sorted, n + 1, Len(sorted))

RECURSIVE SortPrefix(_, _, _, _)
SortPrefix(results, n, targetArtist, targetTitle) ==
    IF n = 0 THEN <<>>
    ELSE InsertResult(SortPrefix(results, n - 1, targetArtist, targetTitle), results[n],
                      targetArtist, targetTitle)

\* sortSearchResults(results, targetArtist, targetTitle)
sortSearchResults(results, targetArtist, targetTitle) ==
    SortPrefix(results, Len(results), targetArtist, targetTitle)

SortInit ==
    /\ TrackerInit
    /\ NotifyIdle
    /\ TrackIdIdle
    /\ LibIdle
    /\ ParseIdle
    /\ LocateIdle
    /\ ResolveIdle
    /\ \E n \in 0..MaxResults :
          \E fields \in [1..n -> ResultFields] :
             \E target \in [artist : Artists, title : Titles] :
                srt = [results |-> Response(fields), input |-> Response(fields),
                       target |-> target, called |-> FALSE]

\* the call: the array is sorted in place and returned
SortCall ==
    /\ ~srt.called
    /\ srt' = [srt EXCEPT
                  !.results = sortSearchResults(@, srt.target.artist, srt.target.title),
                  !.called = TRUE]

SortNext ==
    \/ SortCall /\ UNCHANGED <<trackerVars, locateVars, resolveVars, parseVars, notifyVars, idVars, libVars>>

SpecSort == SortInit /\ [][SortNext]_vars

----------------------------------------------------------------------------
(* The LRC parse of fetchFromNetease and fetchFromQQMusic on its own.       *)
(* Strings are sequences of one-character strings.                          *)

IsDigit(c) == c \in {"0", "1", "2", "3", "4", "5", "6", "7", "8", "9"}

DigitValue(c) ==
    CASE c = "0" -> 0 [] c = "1" -> 1 [] c = "2" -> 2 [] c = "3" -> 3 [] c = "4" -> 4
      [] c = "5" -> 5 [] c = "6" -> 6 [] c = "7" -> 7 [] c = "8" -> 8 [] c = "9" -> 9

\* parseInt of a run of digits
RECURSIVE parseInt(_)
parseInt(digits) ==
    IF digits = <<>> THEN 0
    ELSE parseInt(SubSeq(digits, 1, Len(digits) - 1)) * 10 + DigitValue(digits[Len(digits)])

RECURSIVE PowerOfTen(_)
PowerOfTen(n) == IF n = 0 THEN 1 ELSE 10 * PowerOfTen(n - 1)

\* parseFloat of "<whole>.<fraction>", in thousandths (exact for fractions of
\* up to three digits, which is all the model feeds it)
parseFloatMs(whole, fraction) ==
    parseInt(whole) * 1000 + (parseInt(fraction) * 1000) \div PowerOfTen(Len(fraction))

\* \d+ at position i: the length of the longest run of digits starting there
DigitRun(line, i) ==
    Cardinality({k \in i..Len(line) : \A j \in i..k : IsDigit(line[j])})

CharAt(line, i) == IF i \in 1..Len(line) THEN line[i] ELSE ""

\* /\[(\d+):(\d+\.\d+)\](.*)/ tried at position i. Each \d+ is followed by a
\* character that is no digit, so only its longest run can match.
MatchAt(line, i) ==
    LET d1 == DigitRun(line, i + 1)
        colon == i + 1 + d1
        d2 == DigitRun(line, colon + 1)
        dot == colon + 1 + d2
        d3 == DigitRun(line, dot + 1)
        close == dot + 1 + d3
    IN IF /\ CharAt(line, i) = "["
          /\ d1 >= 1 /\ CharAt(line, colon) = ":"
          /\ d2 >= 1 /\ CharAt(line, dot) = "."
          /\ d3 >= 1 /\ CharAt(line, close) = "]"
       THEN Some([minutes |-> SubSeq(line, i + 1, colon - 1),
                  whole |-> SubSeq(line, colon + 1, dot - 1),
                  fraction |-> SubSeq(line, dot + 1, close - 1),
                  rest |-> SubSeq(line, close + 1, Len(line))])
       ELSE Null

\* line.match(...): the match at the leftmost position that has one, or null
Match(line) ==
    LET starts == {i \in 1..Len(line) : MatchAt(line, i) # Null}
    IN IF starts = {} THEN Null
       ELSE MatchAt(line, CHOOSE i \in starts : \A j \in starts : i <= j)

IsSpace(c) == c = " "

\* String.prototype.trim
trim(str) ==
    LET inked == {i \in 1..Len(str) : ~IsSpace(str[i])}
    IN IF inked = {} THEN <<>>
       ELSE SubSeq(str, CHOOSE i \in inked : \A j \in inked : i <= j,
                        CHOOSE i \in inked : \A j \in inked : i >= j)

\* String.prototype.split('\n')
RECURSIVE split(_)
split(str) ==
    LET breaks == {i \in 1..Len(str) : str[i] = "\n"}
    IN IF breaks = {} THEN <<str>>
       ELSE LET first == CHOOSE i \in breaks : \A j \in breaks : i <= j
            IN <<SubSeq(str, 1, first - 1)>> \o split(SubSeq(str, first + 1, Len(str)))

\* Variant: a minute counted as 100 seconds
LrcTime_Centesimal(minutes, secondsMs) == minutes * 100 * 1000 + secondsMs

\* (minutes * 60 + seconds) * 1000, the seconds given in thousandths
LrcTime(minutes, secondsMs) == minutes * 60 * 1000 + secondsMs

\* the callback of .map: a line of the text to a LyricLine or null
ParseLine(line) ==
    LET match == Match(line)
    IN IF match # Null
       THEN Some(LyricLine(trim(match[1].rest),
                           LrcTime(parseInt(match[1].minutes),
                                   parseFloatMs(match[1].whole, match[1].fraction))))
       ELSE Null

\* .split('\n').map(...).filter(line => line !== null && line.text !== '')
RECURSIVE MapFilter(_)
MapFilter(lines) ==
    IF lines = <<>> THEN <<>>
    ELSE LET parsed == ParseLine(Head(lines))
         IN (IF parsed # Null /\ parsed[1].text # <<>> THEN parsed ELSE <<>>)
                \o MapFilter(Tail(lines))

parseLrc(lyric) == MapFilter(split(lyric))

\* What the lines of the model's texts are composed of: each piece with the
\* characters it is written in and the value it stands for.
MinuteFields == {[str |-> <<"0", "1">>, val |-> 1], [str |-> <<"0">>, val |-> 0]}
SecondFields == {[str |-> <<"0", "2">>, val |-> 2], [str |-> <<"1", "0">>, val |-> 10]}
FractionFields == {[str |-> <<"5", "0">>, ms |-> 500], [str |-> <<"0", "5">>, ms |-> 50]}
TextFields ==
    {[str |-> <<"H", "e", "l", "l", "o">>, trimmed |-> <<"H", "e", "l", "l", "o">>],
     [str |-> <<" ", "H", "i", " ">>, trimmed |-> <<"H", "i">>],
     [str |-> <<>>, trimmed |-> <<>>],
     [str |-> <<" ">>, trimmed |-> <<>>]}

\* "[mm:ss.xx]text"
TaggedLines ==
    {[tagged |-> TRUE,
      raw |-> <<"[">> \o m.str \o <<":">> \o sec.str \o <<".">> \o f.str \o <<"]">> \o t.str,
      time |-> (m.val * 60 + sec.val) * 1000 + f.ms,
      text |-> t.trimmed] :
        m \in MinuteFields, sec \in SecondFields, f \in FractionFields, t \in TextFields}

\* lines the expression has no match in: "[bad]text", "text", "[01:02]Hi", ""
UntaggedLines ==
    {[tagged |-> FALSE, raw |-> raw, time |-> 0, text |-> <<>>] :
        raw \in {<<"[", "b", "a", "d", "]", "t", "e", "x", "t">>,
                 <<"t", "e", "x", "t">>,
                 <<"[", "0", "1", ":", "0", "2", "]", "H", "i">>,
                 <<>>}}

LrcLines == TaggedLines \cup UntaggedLines

\* the lines joined by "\n"
RECURSIVE JoinLines(_)
JoinLines(source) ==
    IF source = <<>> THEN <<>>
    ELSE IF Len(source) = 1 THEN source[1].raw
    ELSE source[1].raw \o <<"\n">> \o JoinLines(Tail(source))

ParseInit ==
    /\ TrackerInit
    /\ NotifyIdle
    /\ TrackIdIdle
    /\ LibIdle
    /\ LocateIdle
    /\ ResolveIdle
    /\ SortIdle
    /\ \E n \in 0..MaxLines :
          \E source \in [1..n -> LrcLines] :
             prs = [lyric |-> JoinLines(source), source |-> source, outcome |-> Null]

\* if (!lyricsResponse.data?.lrc?.lyric) throw: an empty text is not parsed
LyricMissing ==
    /\ prs.outcome = Null
    /\ prs.lyric = <<>>
    /\ prs' = [prs EXCEPT !.outcome = Some(Throws("No lyrics found on Netease"))]

\* "Parse LRC format"
ParseCall ==
    /\ prs.outcome = Null
    /\ prs.lyric # <<>>
    /\ prs' = [prs EXCEPT !.outcome = Some(Returns(parseLrc(prs.lyric)))]

ParseNext ==
    \/ LyricMissing /\ UNCHANGED <<trackerVars, locateVars, resolveVars, sortVars, notifyVars, idVars, libVars>>
    \/ ParseCall /\ UNCHANGED <<trackerVars, locateVars, resolveVars, sortVars, notifyVars, idVars, libVars>>

SpecParse == ParseInit /\ [][ParseNext]_vars

----------------------------------------------------------------------------
(* showErrorWithCooldown on its own, as the earlier extension.ts has it;    *)
(* the current one declares lastErrorTime and ERROR_COOLDOWN_MS and shows   *)
(* no error notification. Any number of reports at any clock reading.       *)

\* showErrorWithCooldown.ERROR_COOLDOWN, milliseconds
ERROR_COOLDOWN == 5000

\* granularity of the modelled clock: half a cooldown
NotifyClockStep == ERROR_COOLDOWN \div 2

\* Date.now() at activation: further from 0, the initial lastErrorTime, than
\* a cooldown
NotifyClockStart == ERROR_COOLDOWN + NotifyClockStep

\* Variant: a report exactly one cooldown after the last notification is shown
CooldownOver_Inclusive(nowMs, lastErrorTime) == nowMs - lastErrorTime >= ERROR_COOLDOWN

\* now - lastErrorTime > ERROR_COOLDOWN
CooldownOver(nowMs, lastErrorTime) == nowMs - lastErrorTime > ERROR_COOLDOWN

NotifyInit ==
    /\ TrackerInit
    /\ LocateIdle
    /\ ResolveIdle
    /\ SortIdle
    /\ ParseIdle
    /\ TrackIdIdle
    /\ LibIdle
    /\ ntf = [now |-> NotifyClockStart, lastErrorTime |-> 0, shown |-> <<>>, reports |-> 0]

\* showErrorWithCooldown(message), called where a permission-class failure is
\* noticed: up to three times in one tick
showErrorWithCooldown ==
    /\ ntf.reports < MaxReports
    /\ ntf' = IF CooldownOver(ntf.now, ntf.lastErrorTime)
              THEN [ntf EXCEPT !.reports = @ + 1,
                               !.shown = Append(@, ntf.now),
                               !.lastErrorTime = ntf.now]
              ELSE [ntf EXCEPT !.reports = @ + 1]

\* time passes
NotifyClockAdvance ==
    /\ ntf.now < NotifyClockStart + MaxElapsed * NotifyClockStep
    /\ ntf' = [ntf EXCEPT !.now = @ + NotifyClockStep]

NotifyNext ==
    \/ showErrorWithCooldown /\ UNCHANGED <<trackerVars, locateVars, resolveVars, sortVars, parseVars, idVars, libVars>>
    \/ NotifyClockAdvance /\ UNCHANGED <<trackerVars, locateVars, resolveVars, sortVars, parseVars, idVars, libVars>>

SpecNotify == NotifyInit /\ [][NotifyNext]_vars

----------------------------------------------------------------------------
(* The track id on its own: the id is computed for two snapshots of the     *)
(* player that may differ in any field; artists and titles may themselves   *)
(* contain the separator.                                                   *)

IdArtists == {"A", "A-B", "B"}
IdTitles == {"x", "B-x", "y"}

\* track lengths, in seconds
Durations == {2, 3}

\* CurrentTrack, with the fields the tracker's snapshots leave out
IdSnapshots ==
    [app : {"Music", "Spotify"}, artist : IdArtists, title : IdTitles,
     position : Positions, duration : Durations, isPlaying : BOOLEAN]

TrackIdInit ==
    /\ TrackerInit
    /\ LocateIdle
    /\ ResolveIdle
    /\ SortIdle
    /\ ParseIdle
    /\ NotifyIdle
    /\ LibIdle
    /\ \E a \in IdSnapshots, b \in IdSnapshots : tid = [tracks |-> <<a, b>>, ids |-> Null]

\* const trackId = `${track.artist}-${track.title}`, for each snapshot
TrackIdCall ==
    /\ tid.ids = Null
    /\ tid' = [tid EXCEPT !.ids =
                  Some(<<TrackIdOf(tid.tracks[1]), TrackIdOf(tid.tracks[2])>>)]

TrackIdNext ==
    \/ TrackIdCall /\ UNCHANGED <<trackerVars, locateVars, resolveVars, sortVars, parseVars, notifyVars, libVars>>

SpecTrackId == TrackIdInit /\ [][TrackIdNext]_vars

----------------------------------------------------------------------------
(* fetchFromLrcLib on its own: one call; how the search request and the    *)
(* request for each result settle is fixed upstream before the call.       *)

\* the fields of the search results of the model's responses
LibFields == [syncedFlag : BOOLEAN, artistName : {"A", "B"}, trackName : {"X"}]

\* the lines of a LrcLibLyrics: texts are sequences of characters
LibBlank == LyricLine(<<" ">>, 0)
LibPadded == LyricLine(<<" ", "b", " ">>, 0)
LibLate == LyricLine(<<"a">>, 1000)

\* lyricsResponse.data: syncedLyrics ([] also stands for a missing field)
\* and plainLyrics ('' also stands for a missing field)
LibLyrics ==
    {[syncedLyrics |-> <<>>, plainLyrics |-> <<"p">>],
     [syncedLyrics |-> <<LibBlank>>, plainLyrics |-> <<>>],
     [syncedLyrics |-> <<LibPadded>>, plainLyrics |-> <<>>],
     [syncedLyrics |-> <<LibPadded>>, plainLyrics |-> <<"p">>],
     [syncedLyrics |-> <<LibBlank, LibLate>>, plainLyrics |-> <<"p">>]}

\* How the request for one result can settle
LibPayloads == {Throws("request failed")} \cup {Returns(data) : data \in LibLyrics}

\* syncedLyrics.map(line => ({text: line.text.trim(), time: line.time}))
\*             .filter(line => line.text)
RECURSIVE TrimFilter(_)
TrimFilter(lines) ==
    IF lines = <<>> THEN <<>>
    ELSE (IF trim(Head(lines).text) # <<>>
          THEN <<LyricLine(trim(Head(lines).text), Head(lines).time)>>
          ELSE <<>>) \o TrimFilter(Tail(lines))

\* syncedLyrics.map(l => l.text).join('\n')
RECURSIVE JoinTexts(_)
JoinTexts(lines) ==
    IF lines = <<>> THEN <<>>
    ELSE IF Len(lines) = 1 THEN lines[1].text
    ELSE lines[1].text \o <<"\n">> \o JoinTexts(Tail(lines))

\* lyricsData.syncedLyrics?.length > 0
HasSynced(data) == Len(data.syncedLyrics) > 0

\* the object returned for a result's lyricsData
LibResult(data) ==
    [syncedLyrics |-> TrimFilter(data.syncedLyrics),
     plainLyrics |-> IF data.plainLyrics # <<>> THEN data.plainLyrics
                     ELSE JoinTexts(data.syncedLyrics)]

LrcLibInit ==
    /\ TrackerInit
    /\ LocateIdle
    /\ ResolveIdle
    /\ SortIdle
    /\ ParseIdle
    /\ NotifyIdle
    /\ TrackIdIdle
    /\ \E n \in 0..MaxResults :
          \E fields \in [1..n -> LibFields], payloads \in [1..n -> LibPayloads] :
             \E search \in {Throws("request failed"), Returns(Response(fields))} :
                lib = [args |-> [artist |-> "A", title |-> "x"], search |-> search,
                       payloads |-> payloads, sorted |-> Null, tried |-> <<>>,
                       outcome |-> Null]

\* the search request settles: the call rejects with the request's error or
\* with its own when there are no results; otherwise the results are sorted
LibSearchSettles ==
    /\ lib.outcome = Null
    /\ lib.sorted = Null
    /\ lib' =
          IF lib.search.kind = "throws"
          THEN [lib EXCEPT !.outcome = Some(lib.search)]
          ELSE IF Len(lib.search.result[1]) = 0
          THEN [lib EXCEPT !.outcome = Some(Throws("No lyrics found on lrclib for x - A"))]
          ELSE [lib EXCEPT !.sorted =
                   Some(sortSearchResults(lib.search.result[1], lib.args.artist,
                                          lib.args.title))]

\* the request for the next result settles: the loop returns, goes on to
\* the next result, or ends in the final throw
LibCandidateSettles ==
    /\ lib.outcome = Null
    /\ lib.sorted # Null
    /\ Len(lib.tried) < Len(lib.sorted[1])
    /\ LET result == lib.sorted[1][Len(lib.tried) + 1]
           payload == lib.payloads[result.id]
       IN lib' = [lib EXCEPT
                    !.tried = Append(@, result.id),
                    !.outcome =
                        IF payload.kind = "returns" /\ HasSynced(payload.result[1])
                        THEN Some(Returns(LibResult(payload.result[1])))
                        ELSE IF Len(lib.tried) + 1 = Len(lib.sorted[1])
                             THEN Some(Throws("No synchronized lyrics found on lrclib"))
                             ELSE Null]

LrcLibNext ==
    \/ LibSearchSettles /\ UNCHANGED <<trackerVars, locateVars, resolveVars, sortVars, parseVars, notifyVars, idVars>>
    \/ LibCandidateSettles /\ UNCHANGED <<trackerVars, locateVars, resolveVars, sortVars, parseVars, notifyVars, idVars>>

SpecLrcLib == LrcLibInit /\ [][LrcLibNext]_vars

----------------------------------------------------------------------------
(* Vocabulary of the claims *)

IsSorted(lines) ==
    \A i \in 1..(Len(lines) - 1) : lines[i].time <= lines[i + 1].time

FetchingFor(trackId) ==
    {track \in Snapshots : TrackIdOf(track) = trackId /\ BagIn(AwaitingFetch(track), invocations)}

\* number of fetchSynchronizedLyrics calls outstanding for one trackId
RECURSIVE CountOver(_, _)
CountOver(tracks, bag) ==
    IF tracks = {} THEN 0
    ELSE LET track == CHOOSE t \in tracks : TRUE
         IN CopiesIn(AwaitingFetch(track), bag) + CountOver(tracks \ {track}, bag)

OutstandingFor(trackId) ==
    CountOver({track \in Snapshots : TrackIdOf(track) = trackId}, invocations)

Outstanding == CountOver(Snapshots, invocations)

TrackIds == {TrackIdOf(track) : track \in Snapshots}

SyncedOf(trackId) ==
    LET track == CHOOSE t \in Snapshots : TrackIdOf(t) = trackId
    IN UpstreamLyrics(track.artist, track.title).syncedLyrics

----------------------------------------------------------------------------
(* Claims about the tracker (Spec) *)

StaleFor(track) == lastTrackId # TrackIdOf(track)

\* C1: when a fetch issued for track X resolves successfully after the active
\* track id has become another track's, the active lyric set and the
\* transcript stay what they were (what the other track produced): X's lines
\* are not adopted.
\* (Every step writes ev; only FetchSucceeds writes op "fetchOk", with stale
\* set when lastTrackId differed from the fetch's track id as it resolved.)
C1_StaleSuccessNotAdopted ==
    [][(ev'.op = "fetchOk" /\ ev'.stale) =>
            (currentLyrics' = currentLyrics /\ fullLyrics' = fullLyrics)]_vars

\* C1 witness: X's fetch has just resolved while Y is the active track and
\* Y's lines are the active lyric set.
C1_Witness ==
    /\ ev.op = "fetchOk"
    /\ ev.stale
    /\ ev.trackId = "A-x"
    /\ lastTrackId = "A-y"
    /\ currentLyrics = SyncedOf("A-y")
    /\ lyricsCache["A-x"] # Null

\* C2 (as claimed): when a fetch rejects after the active track id has
\* changed, the active lyric set, the transcript and the status text are left
\* as they were.
C2_StaleFailureDiscarded ==
    [][\A track \in Snapshots :
        (FetchFails(track) /\ StaleFor(track)) =>
            (/\ currentLyrics' = currentLyrics
             /\ fullLyrics' = fullLyrics
             /\ statusText' = statusText)]_vars

\* C3 (as claimed, for the completion whose result is itself discarded): an
\* invocation whose fetch resolved after the active track id had changed
\* writes nothing more to the display state; it does not run the line
\* locator with its old position and write the status text.
C3_StaleCompletionWritesNoDisplay ==
    [][\A track \in Snapshots :
        (FetchSucceeds(track) /\ StaleFor(track)) =>
            (/\ statusText' = statusText
             /\ statusCommand' = statusCommand
             /\ currentLyrics' = currentLyrics
             /\ fullLyrics' = fullLyrics
             /\ currentTrack' = currentTrack)]_vars

\* C4 (as claimed): at most one invocation of the update callback is in
\* progress at any time.
C4_AtMostOneInvocation == BagCardinality(invocations) <= 1

\* C5 (as claimed): at most one fetchSynchronizedLyrics call is outstanding.
C5_AtMostOneFetch == Outstanding <= 1

\* C6 (as claimed): at most one fetchSynchronizedLyrics call is outstanding
\* for any one track id.
C6_AtMostOneFetchPerTrack == \A trackId \in TrackIds : OutstandingFor(trackId) <= 1

----------------------------------------------------------------------------
(* Claims about findCurrentLyricLine (SpecLocate) *)

Called == locPos # NotCalled

\* the last index whose line starts at or before t, 0 if there is none
LastAtOrBefore(lines, t) ==
    IF \E i \in 1..Len(lines) : lines[i].time <= t
    THEN CHOOSE i \in 1..Len(lines) :
            /\ lines[i].time <= t
            /\ \A j \in (i + 1)..Len(lines) : lines[j].time > t
    ELSE 0

\* C7: on a sorted sequence, a position in [lines[i].time, lines[i+1].time)
\* yields lines[i]; and whenever some line starts at or before the position,
\* the result is the last such line in sequence order.
C7_InteriorLine ==
    (Called /\ IsSorted(locLines)) =>
        /\ \A i \in 1..(Len(locLines) - 1) :
              (locLines[i].time <= locPos /\ locPos < locLines[i + 1].time) =>
                  (locIdx = i /\ locResult = Some(locLines[i]))
        /\ (\E i \in 1..Len(locLines) : locLines[i].time <= locPos) =>
              /\ locIdx = LastAtOrBefore(locLines, locPos)
              /\ locResult = Some(locLines[LastAtOrBefore(locLines, locPos)])

\* C7 witness: a sorted sequence with a tie, called at the very start of the
\* interval that follows the tie; the second of the tied lines is returned.
C7_Witness ==
    /\ Called
    /\ IsSorted(locLines)
    /\ Len(locLines) = 3
    /\ locLines[1].time = locLines[2].time
    /\ locLines[1].text # locLines[2].text
    /\ locPos = locLines[2].time
    /\ locPos < locLines[3].time
    /\ locIdx = 2

\* C8: the result is null on the empty sequence, and on a non-empty sorted
\* sequence when the position is before the first line's time.
C8_NoneBeforeFirst ==
    Called =>
        /\ (Len(locLines) = 0 => locResult = Null)
        /\ (Len(locLines) > 0 /\ IsSorted(locLines) /\ locPos < locLines[1].time) =>
              locResult = Null

\* C8 witness: a call before the first line of a sorted two-line sequence
C8_Witness ==
    /\ Called
    /\ Len(locLines) = 2
    /\ IsSorted(locLines)
    /\ locPos < locLines[1].time
    /\ locResult = Null

\* C9: on a non-empty sorted sequence, a position at or after the last line's
\* time yields the last element, also when earlier lines share its time.
C9_LastLine ==
    (Called /\ Len(locLines) > 0 /\ IsSorted(locLines)
        /\ locPos >= locLines[Len(locLines)].time) =>
        /\ locIdx = Len(locLines)
        /\ locResult = Some(locLines[Len(locLines)])

\* C9 witness: the last two lines share a time and differ in text; the call
\* is exactly at that time
C9_Witness ==
    /\ Called
    /\ Len(locLines) = 3
    /\ IsSorted(locLines)
    /\ locLines[2].time = locLines[3].time
    /\ locLines[2].text # locLines[3].text
    /\ locPos = locLines[3].time
    /\ locIdx = 3

\* age of the cache entry of trackId, when there is one
EntryAge(trackId) == now - lyricsCache[trackId][1].timestamp

\* C13: on a track change to a playing track, an entry of that track younger
\* than 24 hours is adopted and no fetch is started; with no entry, or one
\* aged 24 hours or more, a fetch is started. An age of exactly 24 hours counts
\* as expired.
\* (Only the track-change branches of QueryReturnsTrack write op "cacheHit"
\* and "fetch".)
C13_CacheTtl ==
    [][ev'.op \in {"cacheHit", "fetch"} =>
          \A id \in TrackIds :
             ev'.trackId = id =>
                /\ ev'.op = "cacheHit" =>
                      (/\ lyricsCache[id] # Null
                       /\ EntryAge(id) < CacheTtlMs
                       /\ currentLyrics' = lyricsCache[id][1].syncedLyrics
                       /\ \A track \in Snapshots :
                             CopiesIn(AwaitingFetch(track), invocations')
                                = CopiesIn(AwaitingFetch(track), invocations))
                /\ ev'.op = "fetch" =>
                      (/\ (lyricsCache[id] = Null \/ EntryAge(id) >= CacheTtlMs)
                       /\ \E track \in Snapshots :
                             /\ TrackIdOf(track) = id
                             /\ CopiesIn(AwaitingFetch(track), invocations')
                                   = CopiesIn(AwaitingFetch(track), invocations) + 1)]_vars

\* C13 witness: a fetch was started for a track whose entry is exactly 24
\* hours old.
C13_Witness ==
    /\ ev.op = "fetch"
    /\ lyricsCache[ev.trackId] # Null
    /\ EntryAge(ev.trackId) = CacheTtlMs

\* the steps in which a tick fails: the player query rejected (for want of
\* permission or otherwise) or the lyric fetch rejected
FailureOps == {"permissionError", "queryError", "fetchFailed"}

\* C16: a failing tick leaves the interval as it was, and while the interval
\* is live a failed tick is always followed by the start of another
\* invocation of the callback (or by the extension's disposal).
C16_PollingSurvivesFailure ==
    /\ [][ev'.op \in FailureOps => updateInterval' = updateInterval]_vars
    /\ [](((ev.op \in FailureOps) /\ updateInterval) => <>(ev.op \in {"start", "dispose"}))

\* C16 witness: an invocation started right after a failed fetch, the
\* interval live.
C16_Witness ==
    /\ ev.op = "start"
    /\ updateInterval
    /\ statusText = StatusBar("No lyrics found   ")

C18_ActiveLinesBelongToTrack ==
    \/ currentLyrics = <<>>
    \/ lastTrackId # "" /\ currentLyrics = SyncedOf(lastTrackId)

\* C18 witness: the fetch of a previous track resolved after the change to
\* the track whose lines are active, and those lines are still active.
C18_Witness ==
    /\ ev.op = "fetchOk"
    /\ ev.stale
    /\ lastTrackId # ""
    /\ currentLyrics = SyncedOf(lastTrackId)

PermissionNeeded == StatusBar("(warning) Permission needed   ")

\* C19 (as claimed): at the end of a tick whose player query was rejected for
\* want of permission, the status text is the permission indicator.
C19_PermissionIndicatorShown ==
    ev.op = "permissionError" => statusText = PermissionNeeded

Idle == StatusBar("Waiting for music...")

\* C23: a tick whose player query yields no track, or fails, while a track is
\* active empties the active lyric set and the transcript, resets the status
\* text to the idle text and forgets the track; a tick that yields no track
\* while none is active writes nothing.
C23_ClearedOnceOnNoTrack ==
    [][/\ (ev'.op \in {"noTrack", "queryError", "permissionError"} /\ currentTrack # Null) =>
             (/\ currentLyrics' = <<>>
              /\ fullLyrics' = <<>>
              /\ statusText' = Idle
              /\ currentTrack' = Null)
       /\ (ev'.op = "noTrack" /\ currentTrack = Null) =>
             UNCHANGED <<currentTrack, fullLyrics, statusText, statusCommand, currentLyrics,
                         lastTrackId, lyricsCache>>]_vars

\* C23 witness: the player reported no track after a track whose lyrics had
\* been fetched, and the lyric state is cleared.
C23_Witness ==
    /\ ev.op = "noTrack"
    /\ lastTrackId # ""
    /\ lyricsCache[lastTrackId] # Null
    /\ currentTrack = Null
    /\ currentLyrics = <<>>
    /\ fullLyrics = <<>>
    /\ statusText = Idle

\* C24: a track change (a step that writes op "cacheHit" or "fetch") to a
\* track with a fresh cache entry takes the cache branch, and that step makes
\* the entry's lines the active lyric set of the new track, starts no fetch
\* and leaves the cache as it was.
C24_CachedLinesAdopted ==
    [][\A id \in TrackIds :
          (ev'.op \in {"cacheHit", "fetch"} /\ ev'.trackId = id
              /\ lyricsCache[id] # Null /\ EntryAge(id) < CacheTtlMs) =>
             (/\ ev'.op = "cacheHit"
              /\ lastTrackId' = id
              /\ currentLyrics' = lyricsCache[id][1].syncedLyrics
              /\ lyricsCache' = lyricsCache
              /\ invocations' = invocations (-) SetToBag({AwaitingTrack}))]_vars

\* C24 witness: the lines of a track were adopted from an entry written
\* earlier, with no call outstanding.
C24_Witness ==
    /\ ev.op = "cacheHit"
    /\ lastTrackId = ev.trackId
    /\ EntryAge(ev.trackId) > 0
    /\ currentLyrics = SyncedOf(ev.trackId)
    /\ invocations = EmptyBag

NoLyricsStatus == StatusBar("No lyrics found   ")

\* C25: when a fetch resolves while lastTrackId is still the track id it was
\* started for, its result is stored in the cache under that id with the
\* current time, its lines become the active lyric set, and no other cache
\* key is written.
C25_FreshResultCachedAndAdopted ==
    [][\A track \in Snapshots :
          (ev'.op = "fetchOk" /\ ~ev'.stale /\ ev'.trackId = TrackIdOf(track)) =>
             LET result == UpstreamLyrics(track.artist, track.title)
                 id == TrackIdOf(track)
             IN /\ lyricsCache'[id] =
                      Some([syncedLyrics |-> result.syncedLyrics,
                            plainLyrics |-> result.plainLyrics, timestamp |-> now])
                /\ currentLyrics' = result.syncedLyrics
                /\ \A other \in TrackIds \ {id} : lyricsCache'[other] = lyricsCache[other]]_vars

\* C25 witness: a fetch resolved for the current track some time after the
\* start, with another track's entry, written earlier, in the cache.
C25_Witness ==
    /\ ev.op = "fetchOk"
    /\ ~ev.stale
    /\ lastTrackId = ev.trackId
    /\ currentLyrics = SyncedOf(ev.trackId)
    /\ lyricsCache[ev.trackId] # Null
    /\ lyricsCache[ev.trackId][1].timestamp = now
    /\ now > 0
    /\ \E other \in TrackIds \ {ev.trackId} :
          lyricsCache[other] # Null /\ lyricsCache[other][1].timestamp < now

\* C26: a rejected fetch ends in the callback that started it as display
\* state: the active lyric set and the transcript empty, the status text
\* "No lyrics found"; the outer catch block does not run: currentTrack and
\* the status bar command stay as they were.
C26_FetchFailureBecomesDisplayState ==
    [][ev'.op = "fetchFailed" =>
          /\ currentLyrics' = <<>>
          /\ fullLyrics' = <<>>
          /\ statusText' = NoLyricsStatus
          /\ currentTrack' = currentTrack
          /\ statusCommand' = statusCommand
          /\ UNCHANGED <<lastTrackId, lyricsCache>>]_vars

\* C26 witness: a fetch was rejected while a track is active, and the track
\* is still active.
C26_Witness ==
    /\ ev.op = "fetchFailed"
    /\ ~ev.stale
    /\ currentTrack # Null
    /\ currentLyrics = <<>>
    /\ statusText = NoLyricsStatus

\* C27: a tick that finds the recorded track playing starts no fetch and
\* leaves the cache, the active lyric set, the transcript and lastTrackId as
\* they were; and the track-change branch (steps writing op "cacheHit" or
\* "fetch", which alone set the status text to "Fetching lyrics...") is taken
\* only with a track id other than the recorded one.
C27_SameTrackTickFrame ==
    [][/\ ev'.op = "sameTrack" =>
             (/\ ev'.trackId = lastTrackId
              /\ UNCHANGED <<currentLyrics, fullLyrics, lastTrackId, lyricsCache>>
              /\ invocations' = invocations (-) SetToBag({AwaitingTrack}))
       /\ ev'.op \in {"cacheHit", "fetch"} =>
             (ev'.trackId # lastTrackId /\ lastTrackId' = ev'.trackId)
       /\ lastTrackId' # lastTrackId => ev'.op \in {"cacheHit", "fetch"}]_vars

\* C27 witness: the recorded track was found playing one second in, and its
\* second line is shown.
C27_Witness ==
    /\ ev.op = "sameTrack"
    /\ lastTrackId = "A-y"
    /\ currentLyrics = SyncedOf("A-y")
    /\ statusText = StatusBar("y1")

\* the track-change branch was just taken for this track id
LyricsPending(trackId) == ev.op \in {"cacheHit", "fetch"} /\ ev.trackId = trackId

\* the active lyric set is this track's and has lines
LyricsReady(trackId) == lastTrackId = trackId /\ currentLyrics # <<>>

\* "No lyrics found" is shown and the active lyric set is empty
LyricsUnavailable == statusText = NoLyricsStatus /\ currentLyrics = <<>>

\* C28: with every awaited fetch settling, each time the track-change branch
\* is taken for a track, the tracker later has that track's lines as the
\* non-empty active lyric set, or shows "No lyrics found" with an empty
\* active lyric set, unless the recorded track changes first.
C28_PendingSettles ==
    \A trackId \in TrackIds :
        [](LyricsPending(trackId) =>
              <>(LyricsReady(trackId) \/ LyricsUnavailable \/ lastTrackId # trackId))

\* C28 witness: a fetch resolved for the track still recorded, and the
\* tracker holds its lines.
C28_Witness ==
    /\ ev.op = "fetchOk"
    /\ LyricsReady(ev.trackId)
    /\ statusCommand = "showPanel"
    /\ invocations = EmptyBag

\* an invocation is suspended at `await getCurrentTrack()`
QueryPending == BagIn(AwaitingTrack, invocations)

\* C32: if player queries are pending again and again, player queries
\* settle (with an answer or as a failure) again and again, whether or not
\* the player answers: no invocation waits at `await getCurrentTrack()` for
\* ever.
C32_QueryBounded ==
    []<>QueryPending => []<><<PollQuerySettles /\ TrackerAlone>>_vars

\* C33: no step removes a cache entry; a cache lookup (a hit, a miss or an
\* expired entry) leaves the cache as it was; the cache changes only when a
\* fetch resolves, and then only under the fetched track id, whose entry is
\* dated with the current time.
C33_CacheOnlyGrows ==
    [][/\ \A id \in TrackIds : lyricsCache[id] # Null => lyricsCache'[id] # Null
       /\ ev'.op \in {"cacheHit", "fetch"} => lyricsCache' = lyricsCache
       /\ lyricsCache' # lyricsCache =>
             /\ ev'.op = "fetchOk"
             /\ \A id \in TrackIds :
                   lyricsCache'[id] # lyricsCache[id] =>
                      (id = ev'.trackId /\ lyricsCache'[id][1].timestamp = now)]_vars

\* C33 witness: a track change found the track's entry expired and started
\* a fetch; the expired entry is still in the cache, next to the other
\* track's.
C33_Witness ==
    /\ ev.op = "fetch"
    /\ lyricsCache[ev.trackId] # Null
    /\ EntryAge(ev.trackId) >= CacheTtlMs
    /\ \A id \in TrackIds : lyricsCache[id] # Null

\* a tick reported this track playing
ReportedPlaying(trackId) ==
    ev.op \in {"sameTrack", "cacheHit", "fetch"} /\ ev.trackId = trackId

\* a tick reported something else: no track, a failure, a paused player or
\* another track
ReportedOtherwise(trackId) ==
    \/ ev.op \in {"noTrack", "queryError", "permissionError", "paused"}
    \/ ev.op \in {"sameTrack", "cacheHit", "fetch"} /\ ev.trackId # trackId

\* C34: when a track whose lyrics were resolved (they are in the cache) is
\* reported playing again after the lyric state was cleared (the active
\* lyric set is empty, the status text idle), its lines later become the
\* active lyric set, unless a tick reports something else first or the
\* polling is disposed of.
C34_LyricsRestoredAfterGap ==
    \A trackId \in TrackIds :
        []((/\ ReportedPlaying(trackId)
            /\ lyricsCache[trackId] # Null
            /\ currentLyrics = <<>>
            /\ statusText = Idle)
              => <>(LyricsReady(trackId) \/ ReportedOtherwise(trackId) \/ ~updateInterval))

\* C35: once the interval is cleared by the subscription's dispose, no
\* invocation of the callback starts, and no step changes the status text,
\* the active lyric set or the cache.
C35_QuietAfterDispose ==
    [][~updateInterval =>
          /\ ev'.op # "start"
          /\ UNCHANGED <<statusText, currentLyrics, lyricsCache>>]_vars

----------------------------------------------------------------------------
(* Claims about fetchSynchronizedLyrics (SpecResolve) *)

HasLines(outcome) ==
    outcome.kind = "returns" /\ Len(outcome.result[1].syncedLyrics) >= 1

Returned == res.outcome # Null /\ res.outcome[1].kind = "returns"
Thrown == res.outcome # Null /\ res.outcome[1].kind = "throws"

\* C11: the sources are awaited one after another in the order LrcLib,
\* Netease, QQ Music; no source is awaited after one has delivered a result
\* with at least one line, and that result is what the call returns, unchanged.
C11_OrderAndShortCircuit ==
    /\ \A i \in 1..Len(res.calls) :
          res.calls[i].source = <<"fetchFromLrcLib", "fetchFromNetease", "fetchFromQQMusic">>[i]
    /\ \A i \in 1..(Len(res.calls) - 1) : ~HasLines(res.calls[i].outcome)
    /\ (Len(res.calls) > 0 /\ HasLines(res.calls[Len(res.calls)].outcome)) =>
          res.outcome = Some(Returns(res.calls[Len(res.calls)].outcome.result[1]))
    /\ Returned => HasLines(res.calls[Len(res.calls)].outcome)

\* C11 witness: LrcLib rejected, Netease delivered two lines and the call
\* returned them; QQ Music was never awaited.
C11_Witness ==
    /\ Len(res.calls) = 2
    /\ res.calls[1].outcome.kind = "throws"
    /\ res.calls[2].outcome.kind = "returns"
    /\ Len(res.calls[2].outcome.result[1].syncedLyrics) = 2
    /\ res.outcome = Some(Returns(AdapterResult("fetchFromNetease", res.args.title, 2)))

\* C12: when every source has rejected or delivered no line the call throws;
\* and whatever the call returns has at least one line.
C12_ExhaustionThrows ==
    /\ (Len(res.calls) = 3 /\ \A i \in 1..3 : ~HasLines(res.calls[i].outcome)) => Thrown
    /\ Returned => Len(res.outcome[1].result[1].syncedLyrics) >= 1

\* C12 witness: one source rejected, the two others resolved to empty line
\* sets, and the call threw.
C12_Witness ==
    /\ Len(res.calls) = 3
    /\ res.calls[1].outcome.kind = "returns"
    /\ res.calls[2].outcome.kind = "throws"
    /\ res.calls[3].outcome.kind = "returns"
    /\ Thrown

NoLyricsFound == "No lyrics found in any source"

\* C21 (as claimed): whatever fetchSynchronizedLyrics throws is its own
\* no-lyrics-found error, never the error of a source.
C21_OnlyOwnErrorThrown ==
    Thrown => res.outcome[1].error = NoLyricsFound

\* the calls that rejected, by their place in the order
Rejected == {i \in 1..Len(res.calls) : res.calls[i].outcome.kind = "throws"}

\* C22: when the sources are exhausted, the error thrown is the error of the
\* last source that rejected, sources that resolved to an empty line set
\* notwithstanding; it is the generic error only when no source rejected.
C22_LastErrorSurfaced ==
    Thrown =>
       IF Rejected = {}
       THEN res.outcome[1].error = NoLyricsFound
       ELSE LET last == CHOOSE i \in Rejected : \A j \in Rejected : j <= i
            IN res.outcome[1].error = res.calls[last].outcome.error

\* C22 witness: LrcLib and Netease rejected, QQ Music resolved to an empty
\* line set, and the call threw Netease's error.
C22_Witness ==
    /\ Thrown
    /\ Rejected = {1, 2}
    /\ res.outcome[1].error = res.calls[2].outcome.error
    /\ res.outcome[1].error # res.calls[1].outcome.error

----------------------------------------------------------------------------
(* Claims about sortSearchResults (SpecSort) *)

ArtistMatches(c) == toLowerCase(c.artistName) = toLowerCase(srt.target.artist)
TitleMatches(c) == toLowerCase(c.trackName) = toLowerCase(srt.target.title)

\* the key (synced, artist match, title match) as a number: smaller sorts
\* first, true before false, the earlier component weighing more
Rank(c) ==
    (IF c.syncedFlag THEN 0 ELSE 4) + (IF ArtistMatches(c) THEN 0 ELSE 2)
        + (IF TitleMatches(c) THEN 0 ELSE 1)

\* C14: the sorted array holds the same results, ordered by the key (synced,
\* artist match, title match) with true before false, both matches ignoring
\* case; results with equal keys keep their order in the response; a synced
\* result is never behind a non-synced one.
C14_SortedByKey ==
    srt.called =>
       /\ Len(srt.results) = Len(srt.input)
       /\ \A i \in 1..Len(srt.input) : \E j \in 1..Len(srt.results) : srt.results[j] = srt.input[i]
       /\ \A i, j \in 1..Len(srt.results) :
             i < j =>
                /\ Rank(srt.results[i]) <= Rank(srt.results[j])
                /\ Rank(srt.results[i]) = Rank(srt.results[j]) => srt.results[i].id < srt.results[j].id
                /\ ~(~srt.results[i].syncedFlag /\ srt.results[j].syncedFlag)

\* C14 witness: a response whose synced last result matches artist (by case
\* folding only) and title came out first, and the two others, of equal key,
\* stayed in their order.
C14_Witness ==
    /\ srt.called
    /\ Len(srt.input) = 3
    /\ srt.input[3].syncedFlag /\ srt.input[3].artistName = "a" /\ TitleMatches(srt.input[3])
    /\ ~srt.input[1].syncedFlag /\ ~srt.input[2].syncedFlag
    /\ Rank(srt.input[1]) = Rank(srt.input[2])
    /\ srt.results = <<srt.input[3], srt.input[1], srt.input[2]>>

----------------------------------------------------------------------------
(* Claims about the LRC parse (SpecParse) *)

\* the lines the text was composed of that carry a tag and a text that is
\* not blank, in their order, as LyricLines
RECURSIVE ExpectedLines(_)
ExpectedLines(source) ==
    IF source = <<>> THEN <<>>
    ELSE (IF Head(source).tagged /\ Head(source).text # <<>>
          THEN <<LyricLine(Head(source).text, Head(source).time)>>
          ELSE <<>>) \o ExpectedLines(Tail(source))

Parsed == prs.outcome # Null /\ prs.outcome[1].kind = "returns"

\* C15: the parse turns each line "[mm:ss.xx]text" into the LyricLine with
\* time (mm * 60 + ss.xx) * 1000 and the trimmed text, drops the lines without
\* such a tag and those whose text is blank, raises no error, and keeps the
\* order of the lines.
C15_ParseLrc ==
    /\ Parsed => prs.outcome[1].result[1] = ExpectedLines(prs.source)
    /\ (prs.outcome # Null /\ prs.lyric # <<>>) => Parsed

\* C15 witness: "[bad]text" followed by "[01:02.50]Hello" parsed to the one
\* line (62500, "Hello").
C15_Witness ==
    /\ Parsed
    /\ prs.lyric = <<"[", "b", "a", "d", "]", "t", "e", "x", "t", "\n",
                    "[", "0", "1", ":", "0", "2", ".", "5", "0", "]", "H", "e", "l", "l", "o">>
    /\ prs.outcome[1].result[1] = <<LyricLine(<<"H", "e", "l", "l", "o">>, 62500)>>

\* C30: the lines an adapter's parse returns are sorted ascending by time,
\* whatever the order of the lines in the upstream text.
C30_ParsedLinesSorted == Parsed => IsSorted(prs.outcome[1].result[1])

----------------------------------------------------------------------------
(* Claims about showErrorWithCooldown (SpecNotify) *)

----------------------------------------------------------------------------
(* Claims about the track id (SpecTrackId) *)

\* the ids were computed
IdsComputed == tid # Null /\ tid.ids # Null

\* C29: two snapshots with the same artist and the same title have the same
\* track id, whatever their app, position, duration and playing flag; two
\* snapshots that differ in exactly one of artist and title have different
\* track ids.
C29_TrackIdOfArtistAndTitle ==
    IdsComputed =>
        LET a == tid.tracks[1]
            b == tid.tracks[2]
            sameArtist == a.artist = b.artist
            sameTitle == a.title = b.title
        IN /\ (sameArtist /\ sameTitle) => tid.ids[1][1] = tid.ids[1][2]
           /\ (sameArtist /\ ~sameTitle) => tid.ids[1][1] # tid.ids[1][2]
           /\ (~sameArtist /\ sameTitle) => tid.ids[1][1] # tid.ids[1][2]

\* C29 witness: the ids of two snapshots of one song, taken in different
\* apps at different positions, one playing and one paused, were computed
\* and are the same.
C29_Witness ==
    /\ IdsComputed
    /\ tid.tracks[1] = [app |-> "Music", artist |-> "A-B", title |-> "x",
                        position |-> 0, duration |-> 2, isPlaying |-> TRUE]
    /\ tid.tracks[2] = [app |-> "Spotify", artist |-> "A-B", title |-> "x",
                        position |-> 1, duration |-> 3, isPlaying |-> FALSE]
    /\ tid.ids = Some(<<"A-B-x", "A-B-x">>)


----------------------------------------------------------------------------
(* Claims about fetchFromLrcLib (SpecLrcLib) *)

\* the call has settled after a search that listed results
LibSettled == lib # Null /\ lib.outcome # Null /\ lib.sorted # Null

\* the request for this result resolves to lyrics with at least one line
\* left after trimming the texts and dropping the empty ones
YieldsLines(id) ==
    /\ lib.payloads[id].kind = "returns"
    /\ TrimFilter(lib.payloads[id].result[1].syncedLyrics) # <<>>

\* C31: the call returns the lines of the first result, in ranked order,
\* whose lyrics leave a non-empty line sequence after trimming and dropping
\* empty-text lines, and rejects only if no result leaves one.
C31_FirstUsableCandidateReturned ==
    LibSettled =>
        LET order == lib.sorted[1]
            usable == {i \in 1..Len(order) : YieldsLines(order[i].id)}
        IN IF usable = {}
           THEN lib.outcome[1].kind = "throws"
           ELSE LET first == CHOOSE i \in usable : \A j \in usable : i <= j
                IN /\ lib.outcome[1].kind = "returns"
                   /\ lib.outcome[1].result[1].syncedLyrics =
                         TrimFilter(lib.payloads[order[first].id].result[1].syncedLyrics)
                   /\ Len(lib.tried) = first

====
